---- MODULE Spec2Model ----
(***************************************************************************)
(* VibeSphere WebXR (src/main.js): the init pipeline, the playlist cursor, *)
(* the <video> element and its play() promises, seeking, and panel hover.  *)
(*                                                                         *)
(* Units: times are in centiseconds (0.1 s = 10), panel scale and emissive *)
(* intensity in hundredths (1.05 = 105, 0.25 = 25). A volume is an IEEE    *)
(* double, written <<p, e>>: the double nearest to p/100 + e * 10^-17.     *)
(* A URL is a sequence of text chunks; the chunk " " is whitespace.        *)
(***************************************************************************)
EXTENDS Integers, Sequences, FiniteSets, TLC

\* ------------------------------------------------------------------ bounds
\* Longest text (in chunks) typed into #video-url.
MaxInputLen == 2
\* Most play() promises unsettled at once.
MaxPending == 3
\* Most screen meshes added to the scene.
MaxScreens == 2
\* Largest playback position of a stream of unknown length (centiseconds).
MaxTime == 2000

\* ------------------------------------------------------- program constants
\* Not-a-Number and Infinity of HTMLMediaElement.duration / currentTime.
NaN == -1
Infinity == 1000000

playlists ==
    [ creators |-> << <<"BigBuckBunny.mp4">>,  <<"ElephantsDream.mp4">> >>,
      music    |-> << <<"ForBiggerJoyrides.mp4">>, <<"ForBiggerBlazes.mp4">> >>,
      gaming   |-> << <<"ForBiggerEscapes.mp4">>,  <<"ForBiggerFun.mp4">> >>,
      news     |-> << <<"Sintel.mp4">>, <<"TearsOfSteel.mp4">> >> ]

trendingItems ==
    << [id |-> 1, playlistId |-> "creators"],
       [id |-> 2, playlistId |-> "music"],
       [id |-> 3, playlistId |-> "gaming"],
       [id |-> 4, playlistId |-> "news"] >>

\* The fallback URL of setupVideoScreen.
FallbackUrl == <<"BigBuckBunny.mp4">>

\* seekBy(-10) / seekBy(10) of the seek buttons, and the 0.1 s end margin.
SeekStep == 1000
EndMargin == 10

\* changeVolume(-0.1) / changeVolume(0.1) of the volume buttons, in percent.
VolumeStep == 10

\* The doubles 0 and 1.0.
Zero == <<0, 0>>
One == <<100, 0>>

\* v + 0.1 in IEEE double arithmetic, for every volume the buttons can reach
\* from 1.0 (the sum is rounded to the nearest double, so the steps drift).
PlusTenth ==
    <<0, 0>> :> <<10, 1>> @@ <<0, 3>> :> <<10, 3>> @@ <<0, 14>> :> <<10, 14>> @@
    <<10, 1>> :> <<20, 1>> @@ <<10, 3>> :> <<20, 4>> @@ <<10, 14>> :> <<20, 15>> @@
    <<20, 1>> :> <<30, 4>> @@ <<20, 4>> :> <<30, 4>> @@ <<20, 15>> :> <<30, 16>> @@
    <<30, 4>> :> <<40, 2>> @@ <<30, 16>> :> <<40, 13>> @@
    <<40, 2>> :> <<50, 0>> @@ <<40, 13>> :> <<50, 11>> @@
    <<50, 0>> :> <<60, -2>> @@ <<50, 11>> :> <<60, 9>> @@
    <<60, -2>> :> <<70, -4>> @@ <<60, 9>> :> <<70, 7>> @@
    <<70, -4>> :> <<80, -7>> @@ <<70, 7>> :> <<80, 4>> @@
    <<80, -7>> :> <<90, -9>> @@ <<80, 4>> :> <<90, 2>> @@
    <<90, -9>> :> <<100, -11>> @@ <<90, 2>> :> <<100, 0>> @@
    <<100, -11>> :> <<110, -13>> @@ <<100, 0>> :> <<110, 9>>

\* v + (-0.1) in IEEE double arithmetic, for the same volumes.
MinusTenth ==
    <<0, 0>> :> <<-10, -1>> @@ <<0, 3>> :> <<-10, 2>> @@ <<0, 14>> :> <<-10, 13>> @@
    <<10, 1>> :> <<0, 0>> @@ <<10, 3>> :> <<0, 3>> @@ <<10, 14>> :> <<0, 14>> @@
    <<20, 1>> :> <<10, 1>> @@ <<20, 4>> :> <<10, 3>> @@ <<20, 15>> :> <<10, 14>> @@
    <<30, 4>> :> <<20, 4>> @@ <<30, 16>> :> <<20, 15>> @@
    <<40, 2>> :> <<30, 4>> @@ <<40, 13>> :> <<30, 16>> @@
    <<50, 0>> :> <<40, 2>> @@ <<50, 11>> :> <<40, 13>> @@
    <<60, -2>> :> <<50, 0>> @@ <<60, 9>> :> <<50, 11>> @@
    <<70, -4>> :> <<60, -2>> @@ <<70, 7>> :> <<60, 9>> @@
    <<80, -7>> :> <<70, -4>> @@ <<80, 4>> :> <<70, 7>> @@
    <<90, -9>> :> <<80, -7>> @@ <<90, 2>> :> <<80, 4>> @@
    <<100, -11>> :> <<90, -9>> @@ <<100, 0>> :> <<90, 2>>

\* Panel ids are the indices of trendingItems; 0 is "no panel" (null).
PanelIds == 1..Len(trendingItems)
NoPanel == 0

\* ------------------------------------------------------------- environment
\* Text chunks a user can type; " " stands for whitespace.
Chunks == {" ", "my.mp4"}

RECURSIVE SeqsUpTo(_)
SeqsUpTo(n) ==
    IF n = 0 THEN {<<>>}
    ELSE LET shorter == SeqsUpTo(n - 1)
         IN  shorter \cup {Append(s, c) : s \in shorter, c \in Chunks}

InputValues == SeqsUpTo(MaxInputLen)

\* Playback progress between two events: half a seek step.
PlayStep == SeekStep \div 2
\* Durations the browser can report once a resource has loaded: the sample
\* videos of the playlists are long; a custom URL may be a clip shorter than
\* the end margin, an ordinary video or a stream.
LongDuration == SeekStep + PlayStep
CustomDurations == {5, LongDuration, Infinity}

\* Outcomes of a play() promise: fulfilled, or rejected with a DOMException.
Fulfilled == [ok |-> TRUE, name |-> "", message |-> ""]
Rejected(name, message) == [ok |-> FALSE, name |-> name, message |-> message]
LoadMsg == "interrupted by a new load request"
PauseMsg == "interrupted by a call to pause()"
AbortByLoad == Rejected("AbortError", LoadMsg)
AbortByPause == Rejected("AbortError", PauseMsg)
NotAllowed == Rejected("NotAllowedError", "not allowed by the user agent")
NotSupported == Rejected("NotSupportedError", "no supported source")

VARIABLES
    \* init pipeline and what it installs
    pc,                 \* next phase of the init pipeline, "done" or "aborted"
    overlayPresent,     \* whether #overlay-error exists in the page
    volumeLabelPresent, \* whether #volume-label exists in the page
    panels,             \* number of panel meshes in the panels array
    controllers,        \* number of XR controllers in the controllers array
    domControls,        \* the button listeners of setupDOMControls are installed
    desktopInteraction, \* the window pointermove/click listeners are installed
    animationLoop,      \* renderer.setAnimationLoop(render) was called
    clickBubbling,      \* a button's click is still to reach the window listener
    \* hover state
    hoveredPanel, panelScale, panelEmissive,
    \* program globals
    htmlVideo, currentItem, currentPlaylistId, currentPlaylistIndex,
    audioEnabled, isPlaying, videoTexture, curvedScreen, sceneScreens,
    \* page
    reported,           \* stages reportError logged to the console in the last step
    overlayErrorText,   \* stage shown in #overlay-error, "" when empty
    overlayText,        \* panel whose title #overlay-text shows
    volumeLabel,        \* text of #volume-label, <<>> while as in the page
    \* the <video> element
    src, muted, volume, loop, onloadeddata, onended, currentTime, duration,
    paused,             \* HTMLMediaElement.paused
    loaded,             \* loadeddata was fired for the current resource
    mediaError,         \* the current resource failed to load
    pendingPlays,       \* play() promises waiting for data
    resolveQueued,      \* play() promises whose resolving task is queued
    settled             \* settled play() promises whose callbacks are to run

initVars == <<pc, overlayPresent, volumeLabelPresent, panels, controllers,
              domControls, desktopInteraction, animationLoop>>

hoverVars == <<hoveredPanel, panelScale, panelEmissive>>

videoVars == <<htmlVideo, currentItem, currentPlaylistId, currentPlaylistIndex,
               audioEnabled, isPlaying, videoTexture, curvedScreen, sceneScreens,
               reported, overlayErrorText, overlayText, volumeLabel,
               src, muted, volume, loop, onloadeddata, onended, currentTime,
               duration, paused, loaded, mediaError, pendingPlays, resolveQueued,
               settled>>

vars == <<initVars, clickBubbling, hoverVars, videoVars>>

\* The state the handlers read and write, as one record.
St ==
    [ htmlVideo |-> htmlVideo, currentItem |-> currentItem,
      currentPlaylistId |-> currentPlaylistId,
      currentPlaylistIndex |-> currentPlaylistIndex,
      audioEnabled |-> audioEnabled, isPlaying |-> isPlaying,
      videoTexture |-> videoTexture, curvedScreen |-> curvedScreen,
      sceneScreens |-> sceneScreens, reported |-> reported,
      overlayErrorText |-> overlayErrorText, overlayText |-> overlayText,
      volumeLabel |-> volumeLabel,
      src |-> src, muted |-> muted, volume |-> volume, loop |-> loop,
      onloadeddata |-> onloadeddata, onended |-> onended,
      currentTime |-> currentTime, duration |-> duration, paused |-> paused,
      loaded |-> loaded, mediaError |-> mediaError,
      pendingPlays |-> pendingPlays, resolveQueued |-> resolveQueued,
      settled |-> settled ]

\* The state a step starts from: nothing reported yet.
Fresh == [St EXCEPT !.reported = {}]

\* The next state is the record r.
Commit(r) ==
    /\ currentItem' = r.currentItem
    /\ currentPlaylistId' = r.currentPlaylistId
    /\ src' = r.src
    /\ htmlVideo' = r.htmlVideo
    /\ currentPlaylistIndex' = r.currentPlaylistIndex
    /\ audioEnabled' = r.audioEnabled
    /\ isPlaying' = r.isPlaying
    /\ videoTexture' = r.videoTexture
    /\ curvedScreen' = r.curvedScreen
    /\ sceneScreens' = r.sceneScreens
    /\ reported' = r.reported
    /\ overlayErrorText' = r.overlayErrorText
    /\ overlayText' = r.overlayText
    /\ volumeLabel' = r.volumeLabel
    /\ muted' = r.muted
    /\ volume' = r.volume
    /\ loop' = r.loop
    /\ onloadeddata' = r.onloadeddata
    /\ onended' = r.onended
    /\ currentTime' = r.currentTime
    /\ duration' = r.duration
    /\ paused' = r.paused
    /\ loaded' = r.loaded
    /\ mediaError' = r.mediaError
    /\ pendingPlays' = r.pendingPlays
    /\ resolveQueued' = r.resolveQueued
    /\ settled' = r.settled

\* ---------------------------------------------------------------- helpers
Rep(n, x) == [i \in 1..n |-> x]

Min(a, b) == IF a < b THEN a ELSE b

\* String.prototype.trim: drop leading and trailing whitespace.
RECURSIVE trimStart(_)
trimStart(s) ==
    IF s # <<>> /\ Head(s) = " " THEN trimStart(Tail(s)) ELSE s

RECURSIVE trimEnd(_)
trimEnd(s) ==
    IF s # <<>> /\ s[Len(s)] = " " THEN trimEnd(SubSeq(s, 1, Len(s) - 1)) ELSE s

trim(s) == trimEnd(trimStart(s))

IsPlaylistUrl(u) ==
    \E id \in DOMAIN playlists : \E i \in 1..Len(playlists[id]) : playlists[id][i] = u

\* reportError(stage, error): console.error, and the overlay when it exists.
reportError(s, stage) ==
    [s EXCEPT !.reported = @ \cup {stage},
              !.overlayErrorText = IF overlayPresent THEN stage ELSE @]

\* ------------------------------------------------- the <video> element
\* HTMLMediaElement.play(): a promise that is rejected at once when the
\* resource is unusable, else settled by the browser later.
elPlay(s) ==
    IF s.mediaError
    THEN [s EXCEPT !.settled = Append(@, NotSupported)]
    ELSE IF s.loaded
         THEN [s EXCEPT !.paused = FALSE, !.resolveQueued = @ + 1]
         ELSE [s EXCEPT !.paused = FALSE, !.pendingPlays = @ + 1]

\* HTMLMediaElement.pause(): the promises still waiting are rejected.
elPause(s) ==
    [s EXCEPT !.paused = TRUE,
              !.pendingPlays = 0,
              !.settled = @ \o Rep(s.pendingPlays, AbortByPause)]

\* htmlVideo.src = url; htmlVideo.load(): queued resolving tasks are run at
\* once, waiting promises are rejected, and the element starts over.
elLoad(s, url) ==
    [s EXCEPT !.src = url,
              !.settled = @ \o Rep(s.resolveQueued, Fulfilled)
                            \o Rep(s.pendingPlays, AbortByLoad),
              !.resolveQueued = 0,
              !.pendingPlays = 0,
              !.paused = TRUE,
              !.loaded = FALSE,
              !.mediaError = FALSE,
              !.duration = NaN,
              !.currentTime = 0]

\* Assigning currentTime: before the resource has data the value becomes the
\* default playback start position; afterwards the browser seeks, and a seek
\* is clamped to [0, duration].
elSetCurrentTime(s, target) ==
    [s EXCEPT !.currentTime =
        IF ~s.loaded THEN target
        ELSE IF target < 0 THEN 0
        ELSE Min(target, s.duration)]

\* ------------------------------------------------ video control helpers
playVideo(s) ==
    IF ~s.htmlVideo THEN s ELSE elPlay(s)

\* .then() of playVideo
playThen(s) ==
    [s EXCEPT !.isPlaying = TRUE,
              !.overlayErrorText = IF overlayPresent THEN "" ELSE @]

\* Mutant: every rejection is reported.
playCatch_reportsAll(s, err) ==
    reportError(s, "Video play")

\* .catch() of playVideo
playCatch(s, err) ==
    IF err.name = "AbortError" \/ err.message = LoadMsg
    THEN s
    ELSE reportError(s, "Video play")

ensureAudioEnabled(s) ==
    IF ~s.htmlVideo \/ s.audioEnabled THEN s
    ELSE [s EXCEPT !.muted = FALSE, !.volume = One, !.audioEnabled = TRUE]

\* a < b for doubles.
Less(a, b) == a[1] < b[1] \/ (a[1] = b[1] /\ a[2] < b[2])

MathMax(a, b) == IF Less(a, b) THEN b ELSE a

MathMin(a, b) == IF Less(b, a) THEN b ELSE a

\* Math.round(v * 100): e * 10^-15 percent is far below one half.
MathRoundPercent(v) == v[1]

\* `Vol: ${percent}%`
LabelText(percent) == <<"Vol: ", percent, "%">>

updateVolumeLabel(s) ==
    IF ~volumeLabelPresent \/ ~s.htmlVideo THEN s
    ELSE [s EXCEPT !.volumeLabel = LabelText(MathRoundPercent(s.volume))]

toggleMute(s) ==
    IF ~s.htmlVideo THEN s
    ELSE IF s.muted \/ s.volume = Zero
    THEN [s EXCEPT !.muted = FALSE, !.volume = One, !.audioEnabled = TRUE]
    ELSE [s EXCEPT !.muted = TRUE]

\* delta is +VolumeStep or -VolumeStep.
changeVolume(s, delta) ==
    IF ~s.htmlVideo THEN s
    ELSE LET sum    == IF delta > 0 THEN PlusTenth[s.volume] ELSE MinusTenth[s.volume]
             newVol == MathMax(Zero, MathMin(One, sum))
             s1     == [s EXCEPT !.volume = newVol]
             s2     == IF Less(Zero, newVol)
                       THEN [s1 EXCEPT !.muted = FALSE, !.audioEnabled = TRUE]
                       ELSE s1
         IN  updateVolumeLabel(s2)

pauseVideo(s) ==
    IF ~s.htmlVideo THEN s
    ELSE [elPause(s) EXCEPT !.isPlaying = FALSE]

\* Mutant: a target before the start is not raised to 0.
seekTarget_noFloor(cur, dur, deltaSeconds) ==
    IF cur = NaN THEN NaN
    ELSE LET d  == IF dur = NaN THEN 0 ELSE dur
             t0 == cur + deltaSeconds
         IN  IF d # 0 /\ t0 > d - EndMargin THEN d - EndMargin ELSE t0

\* The value seekBy assigns to currentTime; NaN when it assigns nothing.
seekTarget(cur, dur, deltaSeconds) ==
    IF cur = NaN THEN NaN
    ELSE LET d  == IF dur = NaN THEN 0 ELSE dur
             t0 == cur + deltaSeconds
             t1 == IF t0 < 0 THEN 0 ELSE t0
         IN  IF d # 0 /\ t1 > d - EndMargin THEN d - EndMargin ELSE t1

seekBy(s, deltaSeconds) ==
    IF ~s.htmlVideo \/ s.currentTime = NaN THEN s
    ELSE elSetCurrentTime(s, seekTarget(s.currentTime, s.duration, deltaSeconds))

\* Mutant: the texture is touched before the cursor and the source are set.
playFromPlaylist_textureFirst(s, playlistId, startIndex) ==
    IF playlistId \notin DOMAIN playlists \/ Len(playlists[playlistId]) = 0
    THEN reportError(s, "Playlist")
    ELSE IF s.videoTexture = 0
    THEN reportError(s, "playFromPlaylist")
    ELSE LET list == playlists[playlistId]
             idx  == startIndex % Len(list)
             s1   == [s EXCEPT !.currentPlaylistId = playlistId,
                               !.currentPlaylistIndex = idx]
             s2   == [elPause(s1) EXCEPT !.isPlaying = FALSE]
             s3   == elLoad(s2, list[idx + 1])
         IN  [s3 EXCEPT !.onloadeddata = TRUE, !.onended = playlistId]

playFromPlaylist(s, playlistId, startIndex) ==
    IF playlistId \notin DOMAIN playlists \/ Len(playlists[playlistId]) = 0
    THEN reportError(s, "Playlist")
    ELSE LET list == playlists[playlistId]
             idx  == startIndex % Len(list)
             s1   == [s EXCEPT !.currentPlaylistId = playlistId,
                               !.currentPlaylistIndex = idx]
             s2   == [elPause(s1) EXCEPT !.isPlaying = FALSE]
             s3   == elLoad(s2, list[idx + 1])
         IN  IF s3.videoTexture = 0
             THEN \* videoTexture.needsUpdate throws a TypeError
                  reportError(s3, "playFromPlaylist")
             ELSE [s3 EXCEPT !.onloadeddata = TRUE, !.onended = playlistId]

\* The onended closure installed by playFromPlaylist(playlistId, ...).
onendedHandler(s) ==
    LET playlistId == s.onended
        nextIndex  == (s.currentPlaylistIndex + 1) % Len(playlists[playlistId])
    IN  playFromPlaylist(s, playlistId, nextIndex)

activatePanel(s, panel) ==
    IF panel = NoPanel THEN s
    ELSE LET item == trendingItems[panel]
             s1   == ensureAudioEnabled([s EXCEPT !.currentItem = panel])
             s2   == IF item.playlistId # "" THEN playFromPlaylist(s1, item.playlistId, 0)
                     ELSE s1
         IN  [s2 EXCEPT !.overlayText = panel]

\* Mutant: a custom URL leaves the onended handler in place.
loadVideoClick_keepsHandler(s, value) ==
    LET customUrl == trim(value)
    IN  IF customUrl # <<>>
        THEN LET s1 == [elPause(s) EXCEPT !.isPlaying = FALSE,
                                          !.currentPlaylistId = "null"]
                 s2 == elLoad(s1, customUrl)
             IN  IF s2.videoTexture = 0
                 THEN reportError(s2, "Load video button")
                 ELSE [s2 EXCEPT !.onloadeddata = TRUE]
        ELSE IF s.currentItem # NoPanel /\ trendingItems[s.currentItem].playlistId # ""
             THEN playFromPlaylist(s, trendingItems[s.currentItem].playlistId, 0)
             ELSE playFromPlaylist(s, "creators", 0)

\* Mutant: a custom URL leaves the playlist cursor in place.
loadVideoClick_keepsCursor(s, value) ==
    LET customUrl == trim(value)
    IN  IF customUrl # <<>>
        THEN LET s1 == [elPause(s) EXCEPT !.isPlaying = FALSE]
                 s2 == elLoad(s1, customUrl)
             IN  IF s2.videoTexture = 0
                 THEN reportError(s2, "Load video button")
                 ELSE [s2 EXCEPT !.onloadeddata = TRUE, !.onended = "null"]
        ELSE IF s.currentItem # NoPanel /\ trendingItems[s.currentItem].playlistId # ""
             THEN playFromPlaylist(s, trendingItems[s.currentItem].playlistId, 0)
             ELSE playFromPlaylist(s, "creators", 0)

\* The click listener of #load-video, given the text of #video-url.
loadVideoClick(s, value) ==
    LET customUrl == trim(value)
    IN  IF customUrl # <<>>
        THEN LET s1 == [elPause(s) EXCEPT !.isPlaying = FALSE,
                                          !.currentPlaylistId = "null"]
                 s2 == elLoad(s1, customUrl)
             IN  IF s2.videoTexture = 0
                 THEN reportError(s2, "Load video button")
                 ELSE [s2 EXCEPT !.onloadeddata = TRUE, !.onended = "null"]
        ELSE IF s.currentItem # NoPanel /\ trendingItems[s.currentItem].playlistId # ""
             THEN playFromPlaylist(s, trendingItems[s.currentItem].playlistId, 0)
             ELSE playFromPlaylist(s, "creators", 0)

\* The click listener of #play-pause.
playPauseClick(s) ==
    ensureAudioEnabled(IF s.isPlaying THEN pauseVideo(s) ELSE playVideo(s))

\* Mutant: playback is started without the texture and the mesh.
loadeddataListener_noTexture(s) ==
    playVideo(s)

\* The loadeddata listener added by setupVideoScreen: a new texture and a
\* new mesh, added to the scene, on every loadeddata event.
loadeddataListener(s) ==
    LET id == Cardinality(s.sceneScreens) + 1
    IN  playVideo([s EXCEPT !.videoTexture = id,
                            !.curvedScreen = id,
                            !.sceneScreens = @ \cup {id}])

\* Dispatch of loadeddata: the listener added first runs first.
dispatchLoadeddata(s) ==
    LET s1 == loadeddataListener(s)
    IN  IF s1.onloadeddata THEN playVideo(s1) ELSE s1

\* The error listener added by setupVideoScreen.
errorListener(s) ==
    reportError(s, "Video element")

\* ------------------------------------------------------------- hovering
\* getHoveredPanel, given what the rays hit: mouseHit is the first panel on
\* the pointer ray, rays[i] says whether controller i is visible and the
\* first panel on its ray (NoPanel when a ray hits nothing).
RECURSIVE firstControllerHit(_)
firstControllerHit(rays) ==
    IF rays = <<>> THEN NoPanel
    ELSE IF Head(rays).visible /\ Head(rays).hit # NoPanel THEN Head(rays).hit
    ELSE firstControllerHit(Tail(rays))

getHoveredPanel(mouseHit, rays) ==
    IF mouseHit # NoPanel THEN mouseHit ELSE firstControllerHit(rays)

\* What the rays can hit: only panels that exist.
Hits == IF panels = 0 THEN {NoPanel} ELSE {NoPanel} \cup PanelIds
Rays == [1..controllers -> [visible : BOOLEAN, hit : Hits]]

\* Mutant: the panel hovered before is not reset when another one is hit.
updateHover_noReset(hit) ==
    IF hit # NoPanel
    THEN <<hit, [panelScale EXCEPT ![hit] = 105], [panelEmissive EXCEPT ![hit] = 25]>>
    ELSE IF hoveredPanel # NoPanel
         THEN <<NoPanel, [panelScale EXCEPT ![hoveredPanel] = 100],
                [panelEmissive EXCEPT ![hoveredPanel] = 0]>>
         ELSE <<NoPanel, panelScale, panelEmissive>>

\* updateHover, as the new <<hoveredPanel, panelScale, panelEmissive>>.
updateHover(hit) ==
    IF hit # NoPanel
    THEN LET reset == hoveredPanel # NoPanel /\ hoveredPanel # hit
             sc == IF reset THEN [panelScale EXCEPT ![hoveredPanel] = 100]
                   ELSE panelScale
             em == IF reset THEN [panelEmissive EXCEPT ![hoveredPanel] = 0]
                   ELSE panelEmissive
         IN  <<hit, [sc EXCEPT ![hit] = 105], [em EXCEPT ![hit] = 25]>>
    ELSE IF hoveredPanel # NoPanel
         THEN <<NoPanel, [panelScale EXCEPT ![hoveredPanel] = 100],
                [panelEmissive EXCEPT ![hoveredPanel] = 0]>>
         ELSE <<NoPanel, panelScale, panelEmissive>>

\* ---------------------------------------------------------------- Init
\* The page before the script runs.
InitBoot ==
    /\ pc = "renderer"
    /\ overlayPresent \in BOOLEAN
    /\ volumeLabelPresent \in BOOLEAN
    /\ panels = 0
    /\ controllers = 0
    /\ domControls = FALSE
    /\ desktopInteraction = FALSE
    /\ animationLoop = FALSE
    /\ clickBubbling = FALSE
    /\ hoveredPanel = NoPanel
    /\ panelScale = [p \in PanelIds |-> 100]
    /\ panelEmissive = [p \in PanelIds |-> 0]
    /\ htmlVideo = FALSE
    /\ currentItem = NoPanel
    /\ currentPlaylistId = "null"
    /\ currentPlaylistIndex = 0
    /\ audioEnabled = FALSE
    /\ isPlaying = FALSE
    /\ videoTexture = 0
    /\ curvedScreen = 0
    /\ sceneScreens = {}
    /\ reported = {}
    /\ overlayErrorText = ""
    /\ overlayText = NoPanel
    /\ src = <<>>
    /\ muted = FALSE
    /\ volume = One
    /\ volumeLabel = <<>>
    /\ loop = FALSE
    /\ onloadeddata = FALSE
    /\ onended = "null"
    /\ currentTime = 0
    /\ duration = NaN
    /\ paused = TRUE
    /\ loaded = FALSE
    /\ mediaError = FALSE
    /\ pendingPlays = 0
    /\ resolveQueued = 0
    /\ settled = <<>>

\* ------------------------------------------------------- init pipeline
\* A phase that reports and rethrows: the top-level catch reports again and
\* no later phase runs.
Rethrown(stage) ==
    /\ pc' = "aborted"
    /\ Commit(reportError(reportError(Fresh, stage), "Top-level init"))

SetupRendererAndScene ==
    /\ pc = "renderer"
    /\ \/ /\ pc' = "room"
          /\ \/ Commit(Fresh)
             \/ Commit(reportError(Fresh, "VRButton"))
       \/ Rethrown("Renderer/Scene setup")
    /\ UNCHANGED <<overlayPresent, volumeLabelPresent, panels, controllers, domControls,
                   desktopInteraction, animationLoop, clickBubbling, hoverVars>>

SetupRoom ==
    /\ pc = "room"
    /\ \/ pc' = "panels" /\ Commit(Fresh)
       \/ Rethrown("Room setup")
    /\ UNCHANGED <<overlayPresent, volumeLabelPresent, panels, controllers, domControls,
                   desktopInteraction, animationLoop, clickBubbling, hoverVars>>

SetupPanels ==
    /\ pc = "panels"
    /\ \/ /\ pc' = "video"
          /\ panels' = Len(trendingItems)
          /\ Commit([Fresh EXCEPT !.currentItem = 1])
       \/ /\ Rethrown("Panels setup")
          /\ panels' = panels
    /\ UNCHANGED <<overlayPresent, volumeLabelPresent, controllers, domControls,
                   desktopInteraction, animationLoop, clickBubbling, hoverVars>>

\* setupVideoScreen when #vs-video exists.
setupVideoScreen(s) ==
    LET firstItem == trendingItems[1]
        usable == /\ firstItem.playlistId # ""
                  /\ firstItem.playlistId \in DOMAIN playlists
                  /\ Len(playlists[firstItem.playlistId]) > 0
        s1 == [s EXCEPT !.htmlVideo = TRUE, !.muted = TRUE, !.loop = TRUE]
        s2 == IF usable
              THEN [s1 EXCEPT !.currentPlaylistId = firstItem.playlistId,
                              !.currentPlaylistIndex = 0]
              ELSE s1
        initialUrl == IF usable THEN playlists[firstItem.playlistId][1]
                      ELSE FallbackUrl
    IN  elLoad(s2, initialUrl)

SetupVideoScreen ==
    /\ pc = "video"
    /\ \/ pc' = "xr" /\ Commit(setupVideoScreen(Fresh))
       \/ Rethrown("Video screen setup")     \* Missing #vs-video element
    /\ UNCHANGED <<overlayPresent, volumeLabelPresent, panels, controllers, domControls,
                   desktopInteraction, animationLoop, clickBubbling, hoverVars>>

\* Mutant: a failure of XR controller setup is rethrown.
SetupXRControllers_rethrows ==
    /\ pc = "xr"
    /\ \E n \in 0..2 :
          /\ controllers' = n
          /\ IF n < 2 THEN Rethrown("XR controllers setup")
             ELSE pc' = "dom" /\ Commit(Fresh)
    /\ UNCHANGED <<overlayPresent, volumeLabelPresent, panels, domControls, desktopInteraction,
                   animationLoop, clickBubbling, hoverVars>>

\* n controllers were set up before renderer.xr.getController threw (2: none).
SetupXRControllers ==
    /\ pc = "xr"
    /\ \E n \in 0..2 :
          /\ controllers' = n
          /\ Commit(IF n < 2 THEN reportError(Fresh, "XR controllers setup") ELSE Fresh)
    /\ pc' = "dom"
    /\ UNCHANGED <<overlayPresent, volumeLabelPresent, panels, domControls, desktopInteraction,
                   animationLoop, clickBubbling, hoverVars>>

SetupDOMControls ==
    /\ pc = "dom"
    /\ domControls' = TRUE
    /\ pc' = "desktop"
    /\ Commit(updateVolumeLabel(Fresh))
    /\ UNCHANGED <<overlayPresent, volumeLabelPresent, panels, controllers, desktopInteraction,
                   animationLoop, clickBubbling, hoverVars>>

SetupDesktopInteraction ==
    /\ pc = "desktop"
    /\ desktopInteraction' = TRUE
    /\ pc' = "loop"
    /\ Commit(Fresh)
    /\ UNCHANGED <<overlayPresent, volumeLabelPresent, panels, controllers, domControls,
                   animationLoop, clickBubbling, hoverVars>>

StartLoop ==
    /\ pc = "loop"
    /\ \/ pc' = "done" /\ animationLoop' = TRUE /\ Commit(Fresh)
       \/ Rethrown("Start loop") /\ animationLoop' = animationLoop
    /\ UNCHANGED <<overlayPresent, volumeLabelPresent, panels, controllers, domControls,
                   desktopInteraction, clickBubbling, hoverVars>>

\* ---------------------------------------------------------------- events
\* The script has run to its end, with or without an init error.
InitFinished == pc \in {"done", "aborted"}

\* The browser dispatches the next event: no promise callback is waiting
\* and no click is on its way to the window.
Idle == InitFinished /\ settled = <<>> /\ ~clickBubbling

Unsettled == pendingPlays + resolveQueued + Len(settled)

\* A click on a button goes on to the window's click listener.
Bubble == clickBubbling' = desktopInteraction

\* A click on #load-video while #video-url holds value.
LoadVideoClickWith(value) ==
    /\ Idle /\ domControls
    /\ Bubble
    /\ UNCHANGED <<initVars, hoverVars>>
    /\ Commit(loadVideoClick(Fresh, value))

LoadVideoClick == \E value \in InputValues : LoadVideoClickWith(value)

PlayPauseClick ==
    /\ Idle /\ domControls
    /\ isPlaying \/ Unsettled < MaxPending
    /\ Bubble
    /\ UNCHANGED <<initVars, hoverVars>>
    /\ Commit(playPauseClick(Fresh))

SeekBackClick ==
    /\ Idle /\ domControls
    /\ Bubble
    /\ UNCHANGED <<initVars, hoverVars>>
    /\ Commit(seekBy(Fresh, -SeekStep))

SeekForwardClick ==
    /\ Idle /\ domControls
    /\ duration \in {NaN, Infinity} => currentTime + SeekStep <= MaxTime
    /\ Bubble
    /\ UNCHANGED <<initVars, hoverVars>>
    /\ Commit(seekBy(Fresh, SeekStep))

\* A click on #unmute.
MuteClick ==
    /\ Idle /\ domControls
    /\ Bubble
    /\ UNCHANGED <<initVars, hoverVars>>
    /\ Commit(toggleMute(Fresh))

VolumeDownClick ==
    /\ Idle /\ domControls
    /\ Bubble
    /\ UNCHANGED <<initVars, hoverVars>>
    /\ Commit(changeVolume(Fresh, -VolumeStep))

VolumeUpClick ==
    /\ Idle /\ domControls
    /\ Bubble
    /\ UNCHANGED <<initVars, hoverVars>>
    /\ Commit(changeVolume(Fresh, VolumeStep))

\* The window's click listener: a click on the page, or a button's click
\* bubbling up.
WindowClickOn(hit) ==
    /\ InitFinished /\ settled = <<>> /\ desktopInteraction
    /\ clickBubbling' = FALSE
    /\ UNCHANGED <<initVars, hoverVars>>
    /\ Commit(activatePanel(Fresh, hit))

WindowClick ==
    \E hit \in {getHoveredPanel(m, r) : m \in Hits, r \in Rays} : WindowClickOn(hit)

\* selectstart of a controller that has its listener; hit is the first
\* panel on the controller's ray.
XRSelectOn(hit) ==
    /\ Idle /\ controllers > 0
    /\ UNCHANGED <<initVars, clickBubbling, hoverVars>>
    /\ Commit(activatePanel(Fresh, hit))

XRSelect == \E hit \in Hits : XRSelectOn(hit)

\* render: one frame of the animation loop.
RenderFrame(mouseHit, rays) ==
    /\ Idle /\ animationLoop
    /\ LET h == updateHover(getHoveredPanel(mouseHit, rays))
       IN  /\ hoveredPanel' = h[1]
           /\ panelScale' = h[2]
           /\ panelEmissive' = h[3]
    /\ Commit(Fresh)
    /\ UNCHANGED <<initVars, clickBubbling>>

Render == \E mouseHit \in Hits, rays \in Rays : RenderFrame(mouseHit, rays)

\* The resource has data: loadeddata is dispatched. Promises that waited
\* for data get their resolving task queued.
LoadedData ==
    /\ Idle /\ htmlVideo /\ ~loaded /\ ~mediaError
    /\ Cardinality(sceneScreens) < MaxScreens
    /\ Unsettled + 2 <= MaxPending
    /\ \E dur \in (IF IsPlaylistUrl(src) THEN {LongDuration} ELSE CustomDurations) :
          Commit(dispatchLoadeddata(
                   [Fresh EXCEPT !.loaded = TRUE,
                              !.duration = dur,
                              !.currentTime = Min(@, dur),
                              !.pendingPlays = 0,
                              !.resolveQueued = @ + pendingPlays]))
    /\ UNCHANGED <<initVars, clickBubbling, hoverVars>>

\* The resource cannot be loaded: the error event is dispatched and the
\* waiting promises are rejected.
VideoError ==
    /\ Idle /\ htmlVideo /\ ~loaded /\ ~mediaError
    /\ Commit(errorListener(
                [Fresh EXCEPT !.mediaError = TRUE,
                           !.pendingPlays = 0,
                           !.settled = @ \o Rep(pendingPlays, NotSupported)]))
    /\ UNCHANGED <<initVars, clickBubbling, hoverVars>>

\* The queued task that resolves a play() promise runs.
PlayResolved ==
    /\ Idle /\ resolveQueued > 0
    /\ Commit([Fresh EXCEPT !.resolveQueued = @ - 1, !.settled = <<Fulfilled>>])
    /\ UNCHANGED <<initVars, clickBubbling, hoverVars>>

\* The user agent does not allow a play() request.
PlayNotAllowed ==
    /\ Idle /\ pendingPlays > 0
    /\ Commit([Fresh EXCEPT !.pendingPlays = @ - 1,
                          !.paused = (pendingPlays = 1),
                          !.settled = <<NotAllowed>>])
    /\ UNCHANGED <<initVars, clickBubbling, hoverVars>>

\* A promise callback of playVideo runs, before any other event.
RunCallback ==
    /\ settled # <<>>
    /\ LET outcome == Head(settled)
           s == [Fresh EXCEPT !.settled = Tail(@)]
       IN  Commit(IF outcome.ok THEN playThen(s) ELSE playCatch(s, outcome))
    /\ UNCHANGED <<initVars, clickBubbling, hoverVars>>

\* Playback reaches the end of the resource. With the loop attribute the
\* browser seeks back to the start and fires no ended event; without it the
\* ended event is dispatched to the onended handler.
PlaybackReachesEnd ==
    /\ Idle /\ htmlVideo /\ loaded /\ ~paused /\ duration # Infinity
    /\ Commit(IF loop THEN [Fresh EXCEPT !.currentTime = 0]
              ELSE LET s == [Fresh EXCEPT !.currentTime = duration, !.paused = TRUE]
                   IN  IF s.onended # "null" THEN onendedHandler(s) ELSE s)
    /\ UNCHANGED <<initVars, clickBubbling, hoverVars>>

\* Playback goes on for 5 s without reaching the end.
TimeUpdate ==
    /\ Idle /\ htmlVideo /\ loaded /\ ~paused
    /\ currentTime + PlayStep < Min(duration, MaxTime + 1)
    /\ Commit([Fresh EXCEPT !.currentTime = @ + PlayStep])
    /\ UNCHANGED <<initVars, clickBubbling, hoverVars>>

\* ------------------------------------------------------- specifications
\* The init pipeline, from the empty page to the running (or aborted) app
\* on the desktop: frames are rendered and panels are clicked.
NextBoot ==
    \/ SetupRendererAndScene
    \/ SetupRoom
    \/ SetupPanels
    \/ SetupVideoScreen
    \/ SetupXRControllers
    \/ SetupDOMControls
    \/ SetupDesktopInteraction
    \/ StartLoop
    \/ Render
    \/ WindowClick

SpecBoot == InitBoot /\ [][NextBoot]_vars

\* The state after construction: every phase has run without an error.
Init ==
    /\ pc = "done"
    /\ overlayPresent \in BOOLEAN
    /\ volumeLabelPresent = TRUE
    /\ panels = Len(trendingItems)
    /\ controllers = 2
    /\ domControls = TRUE
    /\ desktopInteraction = TRUE
    /\ animationLoop = TRUE
    /\ clickBubbling = FALSE
    /\ hoveredPanel = NoPanel
    /\ panelScale = [p \in PanelIds |-> 100]
    /\ panelEmissive = [p \in PanelIds |-> 0]
    /\ htmlVideo = TRUE
    /\ currentItem = 1
    /\ currentPlaylistId = "creators"
    /\ currentPlaylistIndex = 0
    /\ audioEnabled = FALSE
    /\ isPlaying = FALSE
    /\ videoTexture = 0
    /\ curvedScreen = 0
    /\ sceneScreens = {}
    /\ reported = {}
    /\ overlayErrorText = ""
    /\ overlayText = NoPanel
    /\ src = playlists.creators[1]
    /\ muted = TRUE
    /\ volume = One
    /\ volumeLabel = LabelText(MathRoundPercent(One))
    /\ loop = TRUE
    /\ onloadeddata = FALSE
    /\ onended = "null"
    /\ currentTime = 0
    /\ duration = NaN
    /\ paused = TRUE
    /\ loaded = FALSE
    /\ mediaError = FALSE
    /\ pendingPlays = 0
    /\ resolveQueued = 0
    /\ settled = <<>>

\* Loading and playing videos.
Next ==
    \/ LoadVideoClick
    \/ PlayPauseClick
    \/ WindowClick
    \/ XRSelect
    \/ LoadedData
    \/ VideoError
    \/ PlayResolved
    \/ PlayNotAllowed
    \/ RunCallback
    \/ TimeUpdate
    \/ PlaybackReachesEnd

Spec == Init /\ [][Next]_vars

\* Seeking in the loaded video.
NextSeek ==
    \/ LoadVideoClick
    \/ WindowClick
    \/ LoadedData
    \/ PlayResolved
    \/ RunCallback
    \/ SeekBackClick
    \/ SeekForwardClick
    \/ TimeUpdate
    \/ PlaybackReachesEnd

SpecSeek == Init /\ [][NextSeek]_vars

\* The volume and mute buttons, with play/pause and panel activation.
NextVolume ==
    \/ VolumeDownClick
    \/ VolumeUpClick
    \/ MuteClick
    \/ PlayPauseClick
    \/ WindowClick
    \/ XRSelect
    \/ LoadedData
    \/ PlayResolved
    \/ RunCallback

SpecVolume == Init /\ [][NextVolume]_vars

\* The init pipeline ends, when no phase fails, in the state Init.
BootEndsInInit ==
    (/\ pc = "done" /\ controllers = 2 /\ animationLoop
     /\ reported = {} /\ overlayErrorText = "" /\ hoveredPanel = NoPanel
     /\ overlayText = NoPanel /\ volumeLabelPresent) => Init

\* ================================================================ claims
\* A panel is activated: the window's click listener or a controller's
\* selectstart listener calls activatePanel(p).
Activates(p) == WindowClickOn(p) \/ XRSelectOn(p)

PanelActivated == \E p \in PanelIds : Activates(p)

FirstUrl(p) == playlists[trendingItems[p].playlistId][1]

\* C1: activating a panel whose item has a non-empty playlist makes the item
\* current, puts the cursor on (item.playlistId, 0) and sets the video's
\* source to the playlist's first URL, in whatever state it happens.
C1_ActivationSelectsPlaylist ==
    [][\A p \in PanelIds :
          (Activates(p) /\ Len(playlists[trendingItems[p].playlistId]) > 0)
          => /\ currentItem' = p
             /\ currentPlaylistId' = trendingItems[p].playlistId
             /\ currentPlaylistIndex' = 0
             /\ src' = FirstUrl(p)]_vars

\* C1 witness: panel 3 was activated before the first loadeddata (no texture
\* yet, so playFromPlaylist reported its TypeError).
C1_Witness ==
    /\ currentItem = 3
    /\ currentPlaylistId = "gaming"
    /\ src = playlists.gaming[1]
    /\ videoTexture = 0
    /\ "playFromPlaylist" \in reported

\* C2 (as claimed): when a video started from a playlist plays to its end,
\* the next video of the same playlist is loaded and the cursor moves to
\* (index + 1) mod length.
C2_EndLoadsNext ==
    [][(PlaybackReachesEnd /\ currentPlaylistId # "null")
       => LET list == playlists[currentPlaylistId]
              next == (currentPlaylistIndex + 1) % Len(list)
          IN  /\ currentPlaylistId' = currentPlaylistId
              /\ currentPlaylistIndex' = next
              /\ src' = list[next + 1]]_vars

\* The video is a custom one: playlist logic is stopped.
CustomMode == currentPlaylistId = "null"

\* C3: a load click with a non-empty URL stops playlist logic (cursor null,
\* source the typed URL, no onended handler); no step other than a panel
\* activation or a load click changes that, the end of the video included;
\* a load click with an empty URL restarts currentItem's playlist at 0, and
\* currentItem is the panel activated last (the first panel initially).
C3_CustomUrlStopsPlaylist ==
    /\ [](CustomMode => onended = "null")
    /\ [][\A value \in InputValues :
             LoadVideoClickWith(value)
             => IF trim(value) # <<>>
                THEN /\ currentPlaylistId' = "null"
                     /\ src' = trim(value)
                     /\ currentItem' = currentItem
                ELSE /\ currentPlaylistId' = trendingItems[currentItem].playlistId
                     /\ currentPlaylistIndex' = 0
                     /\ src' = FirstUrl(currentItem)]_vars
    /\ [][(CustomMode /\ ~(CustomMode' /\ src' = src))
           => (PanelActivated \/ LoadVideoClick)]_vars
    /\ [][currentItem' # currentItem
           => \E p \in PanelIds : Activates(p) /\ currentItem' = p]_vars

\* C3 witness: a custom video has loaded and is playing.
C3_Witness ==
    /\ CustomMode
    /\ src = <<"my.mp4">>
    /\ loaded /\ ~paused /\ isPlaying
    /\ currentItem = 2

\* The stage a rethrowing phase reports under.
PhaseStage(phase) ==
    CASE phase = "renderer" -> "Renderer/Scene setup"
      [] phase = "room"     -> "Room setup"
      [] phase = "panels"   -> "Panels setup"
      [] phase = "video"    -> "Video screen setup"
      [] OTHER              -> "Start loop"

PhaseOrder ==
    { <<"renderer", "room">>, <<"room", "panels">>, <<"panels", "video">>,
      <<"video", "xr">>, <<"xr", "dom">>, <<"dom", "desktop">>,
      <<"desktop", "loop">>, <<"loop", "done">> }

EarlyPhases == {"renderer", "room", "panels", "video"}

\* C4: the phases run in order; a failure of XR controller setup is reported,
\* not rethrown, and DOM controls, desktop interaction and the render loop
\* are set up after it; a failure of renderer/scene, room, panel or video
\* screen setup is reported, rethrown and reported again as "Top-level init",
\* after which no later phase has run and the render loop never starts.
C4_InitPipeline ==
    /\ [][pc' # pc
          => \/ <<pc, pc'>> \in PhaseOrder
             \/ pc \in EarlyPhases \cup {"loop"} /\ pc' = "aborted"]_vars
    /\ [][(pc = "xr" /\ pc' # pc /\ controllers' < 2)
          => /\ pc' = "dom"
             /\ reported' = {"XR controllers setup"}
             /\ overlayPresent => overlayErrorText' = "XR controllers setup"]_vars
    /\ [](pc = "done" => domControls /\ desktopInteraction /\ animationLoop)
    /\ [][(pc \in EarlyPhases /\ pc' = "aborted")
          => /\ reported' = {PhaseStage(pc), "Top-level init"}
             /\ overlayPresent => overlayErrorText' = "Top-level init"
             /\ UNCHANGED <<panels, controllers, domControls,
                            desktopInteraction, animationLoop, htmlVideo>>]_vars
    /\ []((pc = "aborted" /\ ~desktopInteraction)
          => ~domControls /\ ~animationLoop /\ controllers = 0)
    /\ [][pc = "aborted" => UNCHANGED <<pc, animationLoop, domControls>>]_vars
    /\ [](htmlVideo => panels = Len(trendingItems))
    /\ [](domControls => htmlVideo)

\* C4 witness: XR controller setup failed at the first controller, and the
\* app runs on the desktop: a frame hovered a panel and a click activated it.
C4_Witness ==
    /\ pc = "done"
    /\ controllers = 0
    /\ animationLoop /\ domControls /\ desktopInteraction
    /\ hoveredPanel = 2
    /\ currentItem = 2

\* A play() request is issued in this step.
PlayRequested == Unsettled' > Unsettled

\* C5 (as claimed): no play() request is issued before the first loadeddata
\* event has created the video texture and the curved screen mesh.
C5_PlayOnlyWhenReady ==
    [][PlayRequested => (videoTexture' # 0 /\ curvedScreen' # 0)]_vars

\* C5 (amended): a play() request issued while there is no texture or mesh
\* comes from the play/pause button; the loadeddata handlers request play()
\* only with the texture and the mesh in place, and a click on play/pause
\* while isPlaying is false requests play() in any state.
C5_PlayBeforeReadyOnlyByButton ==
    /\ [][(PlayRequested /\ (videoTexture' = 0 \/ curvedScreen' = 0))
          => PlayPauseClick]_vars
    /\ [][(PlayPauseClick /\ ~isPlaying) => PlayRequested]_vars

\* C5 witness: play() was requested by the button before the first
\* loadeddata.
C5_Witness ==
    /\ videoTexture = 0
    /\ curvedScreen = 0
    /\ ~loaded
    /\ pendingPlays > 0

\* The cursor of s names an existing playlist, an index in it, and the
\* source is the URL at that index.
CursorValid(s) ==
    s.currentPlaylistId # "null"
    => /\ s.currentPlaylistId \in DOMAIN playlists
       /\ Len(playlists[s.currentPlaylistId]) > 0
       /\ s.currentPlaylistIndex \in 0..(Len(playlists[s.currentPlaylistId]) - 1)
       /\ s.src = playlists[s.currentPlaylistId][s.currentPlaylistIndex + 1]

\* C6: in every state after video-screen setup the cursor is valid, and an
\* ended event dispatched there to the onended handler leaves it valid.
C6_CursorValid ==
    /\ CursorValid(St)
    /\ onended # "null" => CursorValid(onendedHandler(St))

\* C6 witness: the news playlist was started with the texture in place.
C6_Witness ==
    /\ currentPlaylistId = "news"
    /\ src = playlists.news[1]
    /\ onended = "news"
    /\ videoTexture # 0

\* C7 (as claimed): the scene holds at most one screen mesh, the one
\* curvedScreen refers to.
C7_OneScreen ==
    /\ Cardinality(sceneScreens) <= 1
    /\ curvedScreen # 0 => sceneScreens = {curvedScreen}

Max(a, b) == IF a > b THEN a ELSE b

DurationKnown == duration # NaN /\ duration > 0

\* C8 (as claimed): a seek leaves the position non-negative and, when the
\* duration is known and positive, at most duration - 0.1.
C8_SeekBelowEnd ==
    [][(SeekBackClick \/ SeekForwardClick)
       => /\ currentTime' >= 0
          /\ DurationKnown => currentTime' <= duration - EndMargin]_vars

\* Deltas seekBy is tried with in every state.
Deltas == {-SeekStep, -PlayStep, -EndMargin, 0, EndMargin, PlayStep, SeekStep}

\* C8 (amended): seekBy assigns max(0, position + delta), lowered to
\* duration - 0.1 when the duration is known and non-zero; that value is
\* negative only for a duration under 0.1 s, where the seek is clamped to 0.
\* So the position after a seek is never negative and, when the duration is
\* known and positive, at most max(0, duration - 0.1); a seek that stays
\* within these limits lands on position + delta; a NaN position is left
\* unchanged.
C8_SeekClamped ==
    /\ [](\A d \in Deltas :
            LET target == seekTarget(currentTime, duration, d)
                after  == seekBy(St, d).currentTime
            IN  /\ after >= 0
                /\ target < 0 => (DurationKnown /\ duration < EndMargin)
                /\ DurationKnown => after <= Max(0, duration - EndMargin)
                /\ (/\ currentTime + d >= 0
                    /\ DurationKnown => currentTime + d <= duration - EndMargin)
                   => after = currentTime + d
                /\ seekBy([St EXCEPT !.currentTime = NaN], d)
                     = [St EXCEPT !.currentTime = NaN])
    /\ [][(SeekBackClick \/ SeekForwardClick)
          => /\ currentTime' >= 0
             /\ DurationKnown => currentTime' <= Max(0, duration - EndMargin)]_vars

\* C8 witness: a seek button was clicked on a loaded clip of 0.05 s.
C8_Witness ==
    /\ loaded
    /\ duration = 5
    /\ clickBubbling
    /\ currentTime = 0

\* C9: the callback of a play() rejected with an AbortError reports nothing
\* and leaves isPlaying as it is; the callback of any other rejection
\* reports under "Video play" (console, and overlay when there is one) and
\* leaves isPlaying as it is; the callback of a fulfilled play() sets
\* isPlaying and clears the overlay.
C9_PlayOutcomes ==
    [][RunCallback
       => LET outcome == Head(settled)
          IN  IF outcome.ok
              THEN /\ isPlaying'
                   /\ overlayPresent => overlayErrorText' = ""
                   /\ reported' = {}
              ELSE IF outcome.name = "AbortError"
              THEN /\ reported' = {}
                   /\ UNCHANGED <<overlayErrorText, isPlaying>>
              ELSE /\ reported' = {"Video play"}
                   /\ overlayPresent => overlayErrorText' = "Video play"
                   /\ isPlaying' = isPlaying]_vars

\* C9 witness: a play() rejected by the pause() that precedes a new load
\* awaits its callback while the overlay still shows the report of an earlier
\* rejection that was no abort.
C9_Witness ==
    /\ settled # <<>>
    /\ Head(settled) = AbortByPause
    /\ overlayErrorText = "Video play"
    /\ ~isPlaying

\* At most one panel is highlighted, and it is hoveredPanel.
HoverShown ==
    \A p \in PanelIds :
        /\ panelScale[p] = (IF p = hoveredPanel THEN 105 ELSE 100)
        /\ panelEmissive[p] = (IF p = hoveredPanel THEN 25 ELSE 0)

\* C10: the panel hoveredPanel refers to is the one highlighted panel, every
\* other panel has scale 1 and emissive intensity 0; after a frame
\* hoveredPanel is the panel on the pointer ray when there is one, else a
\* panel on the ray of a visible controller, else null.
C10_OneHighlight ==
    /\ []HoverShown
    /\ [][\A m \in Hits, r \in Rays :
             RenderFrame(m, r)
             => LET seen == {r[i].hit : i \in {j \in 1..controllers :
                                 r[j].visible /\ r[j].hit # NoPanel}}
                IN  /\ m # NoPanel => hoveredPanel' = m
                    /\ (m = NoPanel /\ seen # {}) => hoveredPanel' \in seen
                    /\ (m = NoPanel /\ seen = {}) => hoveredPanel' = NoPanel]_vars

\* C10 witness: panel 2 is hovered and highlighted, the others are not.
C10_Witness ==
    /\ hoveredPanel = 2
    /\ panelScale = <<100, 105, 100, 100>>
    /\ panelEmissive = <<0, 25, 0, 0>>
    /\ controllers = 2

\* The volume is a double within [0, 1].
VolumeInRange == ~Less(volume, Zero) /\ ~Less(One, volume)

\* The volume label shows the current volume as a rounded percentage.
LabelCurrent == volumeLabel = LabelText(MathRoundPercent(volume))

\* C11 (as claimed): after any sequence of volume-up, volume-down, mute
\* button, play/pause and panel activation events the volume is within
\* [0, 1] and the volume label shows it as a rounded percentage.
C11_VolumeShown ==
    (htmlVideo /\ volumeLabelPresent) => (VolumeInRange /\ LabelCurrent)

====
